---------------------------- MODULE Spec2Model ----------------------------
(***************************************************************************)
(* A model of src/trial.py: the salary parser and load_players, the        *)
(* game-time filter, build_lineups around the external lineup optimizer,   *)
(* and the two Flask request handlers over the session.                    *)
(*                                                                         *)
(* Python strings are modelled as sequences of one-character strings, so   *)
(* that replace/strip/split/int/float are computed character by character. *)
(* Each component has its own specification (SpecSalary, SpecLoad,         *)
(* SpecTime, SpecBuild, SpecWeb); the variables of the other components    *)
(* rest at an idle value.                                                  *)
(***************************************************************************)
EXTENDS Integers, Sequences, FiniteSets, TLC

VARIABLES
    salaryIn, salaryOut,                       \* parse_salary: argument, result
    source, loadError, table,                  \* load_players: the CSV, the exception raised, the returned table
    df, time_filter, filtered,                 \* filter_by_game_time: arguments, result
    b_df, num_lineups, locked_ids, excluded_ids, stack_team,   \* build_lineups: arguments
    players, stackApplied, lockRequests,       \* build_lineups: records handed to the optimizer, its constraints
    yielded, unique_lineups, seen_lineups,     \* build_lineups: candidates produced so far, loop locals
    pc, result, log,                           \* build_lineups: position, returned value, printed lines
    session, lastPost, request, response, rendered   \* Flask: session, last completed form, last request/response, template arguments

salaryVars == <<salaryIn, salaryOut>>
loadVars   == <<source, loadError, table>>
timeVars   == <<df, time_filter, filtered>>
buildVars  == <<b_df, num_lineups, locked_ids, excluded_ids, stack_team, players,
                stackApplied, lockRequests, yielded, unique_lineups, seen_lineups,
                pc, result, log>>
webVars    == <<session, lastPost, request, response, rendered>>
vars       == <<salaryVars, loadVars, timeVars, buildVars, webVars>>

\* An optional value is a sequence of length at most one: None is Python's
\* None (or a value not yet computed), Some(v) holds v.
None    == <<>>
Some(v) == <<v>>
Val(o)  == o[1]

IdleSalary == salaryIn = None /\ salaryOut = None
IdleLoad   == source = None /\ loadError = None /\ table = None
IdleTime   == df = None /\ time_filter = None /\ filtered = None
IdleBuild  == /\ b_df = None /\ num_lineups = None /\ locked_ids = None
              /\ excluded_ids = None /\ stack_team = None /\ players = None
              /\ stackApplied = None /\ lockRequests = None /\ yielded = None
              /\ unique_lineups = None /\ seen_lineups = None /\ pc = None
              /\ result = None /\ log = None
IdleWeb    == /\ session = None /\ lastPost = None /\ request = None
              /\ response = None /\ rendered = None

(***************************************************************************)
(* Python string and number primitives.                                    *)
(***************************************************************************)
Digits == {"0", "1", "2", "3", "4", "5", "6", "7", "8", "9"}

DigitVal(c) ==
    CASE c = "0" -> 0 [] c = "1" -> 1 [] c = "2" -> 2 [] c = "3" -> 3
      [] c = "4" -> 4 [] c = "5" -> 5 [] c = "6" -> 6 [] c = "7" -> 7
      [] c = "8" -> 8 [] c = "9" -> 9

RECURSIVE DigitsVal(_)
DigitsVal(s) ==
    IF s = <<>> THEN 0
    ELSE 10 * DigitsVal(SubSeq(s, 1, Len(s) - 1)) + DigitVal(s[Len(s)])

RECURSIVE Pow10(_)
Pow10(n) == IF n = 0 THEN 1 ELSE 10 * Pow10(n - 1)

AllDigits(s) == \A i \in 1..Len(s) : s[i] \in Digits

\* str.replace(c, ""): every occurrence of the character is removed
Remove(s, c) == SelectSeq(s, LAMBDA x : x # c)

\* str.strip(): leading and trailing blanks are removed
RECURSIVE LStrip(_)
LStrip(s) == IF s # <<>> /\ s[1] = " " THEN LStrip(Tail(s)) ELSE s
RECURSIVE RStrip(_)
RStrip(s) ==
    IF s # <<>> /\ s[Len(s)] = " " THEN RStrip(SubSeq(s, 1, Len(s) - 1)) ELSE s
Strip(s) == RStrip(LStrip(s))

\* str.upper() on the letters that occur in the model
UpperChar(c) ==
    CASE c = "a" -> "A" [] c = "p" -> "P" [] c = "m" -> "M" [] c = "n" -> "N"
      [] c = "e" -> "E" [] c = "q" -> "Q" [] c = "b" -> "B" [] c = "r" -> "R"
      [] OTHER -> c
Upper(s) == [i \in 1..Len(s) |-> UpperChar(s[i])]

\* int(str): blanks around, an optional sign, then one or more digits;
\* anything else raises ValueError (ok = FALSE)
PyInt(s) ==
    LET t    == Strip(s)
        sgn  == t # <<>> /\ t[1] \in {"-", "+"}
        body == IF sgn THEN Tail(t) ELSE t
    IN  IF body # <<>> /\ AllDigits(body)
        THEN [ok |-> TRUE,
              val |-> IF sgn /\ t[1] = "-" THEN 0 - DigitsVal(body) ELSE DigitsVal(body)]
        ELSE [ok |-> FALSE, val |-> 0]

\* Truncation toward zero of num/den (den > 0), as int(float) does
Trunc(num, den) == IF num >= 0 THEN num \div den ELSE 0 - ((0 - num) \div den)

\* float(str): blanks around, an optional sign, then "nan", "inf", or digits
\* with at most one "." and at least one digit. A number is kept exactly as
\* num/den with den a power of ten; the inputs of the model are chosen so
\* that the double arithmetic of the code agrees with the exact value.
PyFloat(s) ==
    LET t    == Strip(s)
        sgn  == t # <<>> /\ t[1] \in {"-", "+"}
        neg  == sgn /\ t[1] = "-"
        body == IF sgn THEN Tail(t) ELSE t
        dots == {i \in 1..Len(body) : body[i] = "."}
        dot  == IF dots = {} THEN Len(body) + 1 ELSE CHOOSE i \in dots : TRUE
        ip   == SubSeq(body, 1, dot - 1)
        fp   == SubSeq(body, dot + 1, Len(body))
        mag  == DigitsVal(ip \o fp)
    IN  IF body = <<"n", "a", "n">> THEN [kind |-> "nan", num |-> 0, den |-> 1]
        ELSE IF body = <<"i", "n", "f">>
             THEN [kind |-> "inf", num |-> IF neg THEN -1 ELSE 1, den |-> 1]
        ELSE IF /\ Cardinality(dots) <= 1
                /\ AllDigits(ip) /\ AllDigits(fp)
                /\ Len(ip) + Len(fp) >= 1
             THEN [kind |-> "num", num |-> IF neg THEN 0 - mag ELSE mag,
                   den |-> Pow10(Len(fp))]
        ELSE [kind |-> "err", num |-> 0, den |-> 1]

(***************************************************************************)
(* load_players.parse_salary                                               *)
(***************************************************************************)
SalaryThreshold == 100     \* "if f < 100"
SalaryScale     == 1000    \* "int(f * 1000)"

CleanSalary(x) == Remove(Remove(Remove(x, "$"), ","), "k")

parse_salary_k_suffix(x) ==
    LET f == PyFloat(CleanSalary(x))
    IN  IF f.kind # "num" THEN 0
        ELSE IF x # <<>> /\ x[Len(x)] = "k"
             THEN Trunc(f.num * SalaryScale, f.den)
             ELSE Trunc(f.num, f.den)

\* x is str(cell). float() raising ValueError, int(nan) raising ValueError
\* and int(+-inf) raising OverflowError all end in "except: return 0".
parse_salary(x) ==
    LET f == PyFloat(CleanSalary(x))
    IN  IF f.kind # "num" THEN 0
        ELSE IF f.num < SalaryThreshold * f.den
             THEN Trunc(f.num * SalaryScale, f.den)
             ELSE Trunc(f.num, f.den)

\* Every text over SalaryChars up to MaxSalaryLen, and the named examples.
\* With the digits 0, 5 and 9 the product f * 1000 is exact in doubles for
\* every number of up to six characters, so int(f * 1000) is the exact
\* integer part.
MaxSalaryLen == 4
SalaryChars  == {"$", ",", "k", ".", "-", "0", "5", "9", "x"}
SalaryExamples ==
    { <<"$", "5", ",", "0", "0", "0">>, <<"5", "0", "0", "0">>, <<"5", "k">>,
      <<"5", ".", "5", "k">>, <<"n", "a", "n">>, <<"i", "n", "f">>,
      <<"-", "i", "n", "f">>, <<"$", "9", "0", ",", "5", "0", "0">> }
SalaryInputs ==
    SalaryExamples \cup UNION {[1..n -> SalaryChars] : n \in 0..MaxSalaryLen}

InitSalary ==
    /\ salaryIn \in {Some(x) : x \in SalaryInputs}
    /\ salaryOut = None
    /\ IdleLoad /\ IdleTime /\ IdleBuild /\ IdleWeb

ParseSalary ==
    /\ salaryIn # None /\ salaryOut = None
    /\ salaryOut' = Some(parse_salary(Val(salaryIn)))
    /\ UNCHANGED <<salaryIn, loadVars, timeVars, buildVars, webVars>>

NextSalary == ParseSalary

SpecSalary == InitSalary /\ [][NextSalary]_vars


(***************************************************************************)
(* Claim C9 (as stated): the salary parser yields 5000, 5000, 5000 and     *)
(* 5500 for "$5,000", "5000", "5k" and "5.5k"; a value written with the    *)
(* "k" suffix yields one thousand times its number, a value written        *)
(* without it yields the number itself; unparseable input yields 0.        *)
(* "Its number" is the text without "$", "," and the trailing "k".         *)
(***************************************************************************)
HasKSuffix(x) == x # <<>> /\ x[Len(x)] = "k"
WrittenNumber(x) ==
    LET body == IF HasKSuffix(x) THEN SubSeq(x, 1, Len(x) - 1) ELSE x
    IN  PyFloat(Remove(Remove(body, "$"), ","))

C9_Examples ==
    /\ salaryIn = Some(<<"$", "5", ",", "0", "0", "0">>) => salaryOut = Some(5000)
    /\ salaryIn = Some(<<"5", "0", "0", "0">>) => salaryOut = Some(5000)
    /\ salaryIn = Some(<<"5", "k">>) => salaryOut = Some(5000)
    /\ salaryIn = Some(<<"5", ".", "5", "k">>) => salaryOut = Some(5500)

C9_AsStated ==
    salaryOut # None =>
        LET x == Val(salaryIn)
            n == WrittenNumber(x)
            out == Val(salaryOut)
        IN  /\ C9_Examples
            /\ n.kind = "num" =>
                   IF HasKSuffix(x) THEN out * n.den = 1000 * n.num
                                    ELSE out * n.den = n.num
            /\ PyFloat(CleanSalary(x)).kind # "num" => out = 0

(***************************************************************************)
(* Claim C9 (amended): the four examples yield 5000, 5000, 5000 and 5500;  *)
(* after "$", "," and "k" are removed, a number below 100 yields the       *)
(* integer part of one thousand times the number and a number of 100 or    *)
(* more yields its integer part, with or without the "k"; any input that   *)
(* is not a finite number yields 0.                                        *)
(***************************************************************************)
C9_ParseSalary ==
    salaryOut # None =>
        LET x == Val(salaryIn)
            n == PyFloat(Remove(Remove(Remove(x, "k"), ","), "$"))
            out == Val(salaryOut)
        IN  /\ C9_Examples
            /\ (n.kind = "num" /\ n.num < 100 * n.den) =>
                   IF n.num >= 0
                   THEN out * n.den <= 1000 * n.num /\ 1000 * n.num < (out + 1) * n.den
                   ELSE out * n.den >= 1000 * n.num /\ 1000 * n.num > (out - 1) * n.den
            /\ (n.kind = "num" /\ n.num >= 100 * n.den) =>
                   out * n.den <= n.num /\ n.num < (out + 1) * n.den
            /\ n.kind # "num" => out = 0

\* a "k"-suffixed value of 100 or more has been parsed: "950k" gave 950
C9_Witness ==
    /\ salaryIn = Some(<<"9", "5", "0", "k">>) /\ salaryOut = Some(950)

(***************************************************************************)
(* safe_float, compute_adjusted_proj, load_players                         *)
(*                                                                         *)
(* A CSV cell is the text str(cell); a missing cell (NaN) is "nan".        *)
(* Numbers are exact fractions num/den. The projections of the model are   *)
(* multiples of 0.5, for which the double arithmetic of                    *)
(* compute_adjusted_proj is exact and round(adj, 2) is round-half-even.    *)
(***************************************************************************)
Zero == [kind |-> "num", num |-> 0, den |-> 1]

\* float(val), or the default on TypeError/ValueError; NaN passes through
safe_float(val, default) ==
    IF PyFloat(val).kind = "err" THEN default ELSE PyFloat(val)

\* a < b on floats; any comparison with NaN is False
Less(a, b) ==
    a.kind = "num" /\ b.kind = "num" /\ a.num * b.den < b.num * a.den
LessEq(a, b) ==
    a.kind = "num" /\ b.kind = "num" /\ a.num * b.den <= b.num * a.den
Num(n) == [kind |-> "num", num |-> n, den |-> 1]
AbsDiff(a, b) ==
    IF a.kind = "num" /\ b.kind = "num"
    THEN LET d == a.num * b.den - b.num * a.den
         IN  [kind |-> "num", num |-> IF d >= 0 THEN d ELSE 0 - d, den |-> a.den * b.den]
    ELSE [kind |-> "nan", num |-> 0, den |-> 1]

\* num/den rounded to the nearest integer, ties to the even one
RoundHalfEven(num, den) ==
    LET q == num \div den
        r == num - q * den
    IN  IF 2 * r < den THEN q
        ELSE IF 2 * r > den THEN q + 1
        ELSE IF q % 2 = 0 THEN q ELSE q + 1

\* In hundredths of a point. proj is FINAL PROJECTION after to_numeric and
\* fillna(0), a finite number of hundredths. 1.5 is 150 hundredths and the
\* factor 0.75 is 75/100.
compute_adjusted_proj(proj, row) ==
    LET dvp == safe_float(row.DVP, Zero)
        l5  == safe_float(row.L5, Zero)
        szn == safe_float(row.SZ, Zero)
        a1  == IF Less(dvp, Num(5)) THEN proj - 150 ELSE proj
        a2  == IF LessEq(AbsDiff(l5, szn), Num(5)) /\ Less(Num(14), l5)
               THEN a1 + 150 ELSE a1
    IN  RoundHalfEven(a2 * 75, 100)

\* pd.to_numeric(errors="coerce").fillna(0), in hundredths
to_numeric_fillna(cell) ==
    LET f == PyFloat(cell)
    IN  IF f.kind = "num" THEN (f.num * 100) \div f.den ELSE 0

\* "df_raw[df_raw["SALARY"] > 0]" and "df_raw[df_raw["FINAL PROJECTION"] > 0]"
salary_kept(salary) == salary > 0

projection_kept_nonneg(fp) == fp >= 0
projection_kept(fp) == fp > 0

\* One row of the returned table: POS normalised, unique_id derived from
\* NAME and the row's index in the CSV (kept through the filters).
LoadedRow(r, salary, fp, index) ==
    [NAME |-> r.NAME, TEAM |-> r.TEAM, GAME_TIME |-> r.GAME_TIME,
     POS |-> Upper(Strip(r.POS)),
     SALARY |-> salary,
     FINAL_PROJECTION |-> fp,
     ADJ_PROJECTION |-> compute_adjusted_proj(fp, r),
     unique_id |-> <<r.NAME, index>>]

\* The table load_players returns for the CSV rows from row i on. A row
\* whose salary is not positive is dropped before the projections are
\* computed, a row whose projection is not positive after.
RECURSIVE LoadedRows(_, _)
LoadedRows(rows, i) ==
    IF i > Len(rows) THEN <<>>
    ELSE LET salary == parse_salary(rows[i].SALARY)
             fp     == to_numeric_fillna(rows[i].PROJ)
         IN  IF salary_kept(salary) /\ projection_kept(fp)
             THEN <<LoadedRow(rows[i], salary, fp, i - 1)>> \o LoadedRows(rows, i + 1)
             ELSE LoadedRows(rows, i + 1)

\* sorted list of the distinct, upper-cased, non-blank team codes: a set
AllTeams(rows) ==
    {Upper(rows[i].TEAM) : i \in {j \in 1..Len(rows) : Strip(rows[j].TEAM) # <<>>}}

MaxSourceRows == 2
SalaryCells == { <<"$", "5", ",", "0", "0", "0">>, <<"5", ".", "5", "k">>,
                 <<"0">>, <<"-", "5", "0", "0", "0">>, <<"n", "a", "n">> }
ProjectionCells == { <<"n", "a", "n">>, <<"x">>, <<"0">>, <<"-", "5">>,
                     <<"2", "0">>, <<"9", ".", "5">> }
Profiles ==
    { [NAME |-> "Brady", TEAM |-> <<"n", "e">>, POS |-> <<" ", "q", "b">>,
       GAME_TIME |-> <<"1", ":", "0", "5", "p", "m">>,
       DVP |-> <<"3">>, L5 |-> <<"1", "6">>, SZ |-> <<"1", "5">>],
      [NAME |-> "Kamara", TEAM |-> <<" ">>, POS |-> <<"R", "B">>,
       GAME_TIME |-> <<"4", ":", "0", "0", "p", "m">>,
       DVP |-> <<"n", "a", "n">>, L5 |-> <<"x">>, SZ |-> <<"2", "0">>] }
SourceRows ==
    { [NAME |-> p.NAME, TEAM |-> p.TEAM, POS |-> p.POS, GAME_TIME |-> p.GAME_TIME,
       DVP |-> p.DVP, L5 |-> p.L5, SZ |-> p.SZ, SALARY |-> s, PROJ |-> f] :
      p \in Profiles, s \in SalaryCells, f \in ProjectionCells }
Sources ==
    { [hasProjection |-> h, rows |-> r] :
      h \in BOOLEAN, r \in UNION {[1..n -> SourceRows] : n \in 0..MaxSourceRows} }

InitLoad ==
    /\ source \in {Some(c) : c \in Sources}
    /\ loadError = None
    /\ table = None
    /\ IdleSalary /\ IdleTime /\ IdleBuild /\ IdleWeb

LoadPending == source # None /\ loadError = None /\ table = None

\* pd.read_csv(CSV_URL) raises: the URL is unreachable or the text malformed
LoadPlayersFetchFails ==
    /\ LoadPending
    /\ loadError' = Some("DataSourceError")
    /\ UNCHANGED <<source, table, salaryVars, timeVars, buildVars, webVars>>

\* without a FINAL PROJECTION column, df_raw.get(..., 0) is the scalar 0 and
\* pd.to_numeric(0).fillna raises AttributeError
LoadPlayersNoProjection ==
    /\ LoadPending
    /\ ~Val(source).hasProjection
    /\ loadError' = Some("AttributeError")
    /\ UNCHANGED <<source, table, salaryVars, timeVars, buildVars, webVars>>

LoadPlayers ==
    /\ LoadPending
    /\ Val(source).hasProjection
    /\ LET rows == LoadedRows(Val(source).rows, 1)
       IN  table' = Some([df |-> rows, all_teams |-> AllTeams(rows)])
    /\ UNCHANGED <<source, loadError, salaryVars, timeVars, buildVars, webVars>>

NextLoad == LoadPlayersFetchFails \/ LoadPlayersNoProjection \/ LoadPlayers

SpecLoad == InitLoad /\ [][NextLoad]_vars

(***************************************************************************)
(* Claim C8: every row of the table returned by load_players has           *)
(* salary > 0 and final_projection > 0, and the returned rows are exactly  *)
(* the source rows that satisfy both (the others are dropped).             *)
(***************************************************************************)
C8_LoadedRowsPositive ==
    table # None =>
        LET out == Val(table).df
            src == Val(source).rows
            good == {i \in 1..Len(src) :
                        /\ parse_salary(src[i].SALARY) > 0
                        /\ PyFloat(src[i].PROJ).kind = "num"
                        /\ PyFloat(src[i].PROJ).num > 0}
        IN  /\ \A i \in 1..Len(out) :
                  out[i].SALARY > 0 /\ out[i].FINAL_PROJECTION > 0
            /\ {out[i].unique_id[2] + 1 : i \in 1..Len(out)} = good
            /\ Len(out) = Cardinality(good)

\* a table was returned from a source holding a row with a negative salary
\* and a row with a non-numeric projection next to a valid row
C8_Witness ==
    /\ table # None
    /\ Len(Val(table).df) = 1
    /\ Len(Val(source).rows) = 2
    /\ \E i \in 1..2 : Val(source).rows[i].SALARY = <<"-", "5", "0", "0", "0">>
                       \/ Val(source).rows[i].PROJ = <<"x">>

(***************************************************************************)
(* filter_by_game_time                                                     *)
(*                                                                         *)
(* A GAME TIME cell is Some(text), or None when the cell is not a string   *)
(* (a missing cell is the float NaN).                                      *)
(***************************************************************************)
Colons(s) == {i \in 1..Len(s) : s[i] = ":"}
Min(S) == CHOOSE x \in S : \A y \in S : x <= y

\* s.split(":")[0] and s.split(":")[1], for s holding at least one ":"
SplitPart0(s) == SubSeq(s, 1, Min(Colons(s)) - 1)
SplitPart1(s) ==
    LET c1   == Min(Colons(s))
        rest == {i \in Colons(s) : i > c1}
        stop == IF rest = {} THEN Len(s) + 1 ELSE Min(rest)
    IN  SubSeq(s, c1 + 1, stop - 1)

\* t[:2] and t[-2:]
First2(t) == SubSeq(t, 1, IF Len(t) < 2 THEN Len(t) ELSE 2)
Last2(t)  == SubSeq(t, IF Len(t) < 2 THEN 1 ELSE Len(t) - 1, Len(t))

MinutesPerHour == 60
HalfDay == 12

\* None when the cell is not a string, holds no ":", or int() raises
parse_hour_minute(cell) ==
    IF cell = None \/ Colons(Val(cell)) = {} THEN None
    ELSE LET t     == Strip(Val(cell))
             h     == PyInt(SplitPart0(t))
             m     == PyInt(First2(SplitPart1(t)))
             am_pm == Upper(Last2(t))
             hour  == IF am_pm = <<"P", "M">> /\ h.val # HalfDay THEN h.val + HalfDay
                      ELSE IF am_pm = <<"A", "M">> /\ h.val = HalfDay THEN 0
                      ELSE h.val
         IN  IF ~h.ok \/ ~m.ok THEN None
             ELSE Some(hour * MinutesPerHour + m.val)

OnePmFrom  == 12 * 60 + 30
OnePmUntil == 13 * 60 + 30
LateFrom   == 16 * 60

\* a comparison of a NaN GAME_MIN is False; dropna drops the NaN rows
row_kept_late_strict(time_filter_name, game_min) ==
    IF time_filter_name = "all" THEN game_min # None
    ELSE IF time_filter_name = "1pm"
         THEN game_min # None /\ Val(game_min) >= OnePmFrom /\ Val(game_min) <= OnePmUntil
    ELSE IF time_filter_name = "late"
         THEN game_min # None /\ Val(game_min) > LateFrom
    ELSE game_min # None

row_kept(time_filter_name, game_min) ==
    IF time_filter_name = "all" THEN game_min # None
    ELSE IF time_filter_name = "1pm"
         THEN game_min # None /\ Val(game_min) >= OnePmFrom /\ Val(game_min) <= OnePmUntil
    ELSE IF time_filter_name = "late"
         THEN game_min # None /\ Val(game_min) >= LateFrom
    ELSE game_min # None

\* the copy of df with the GAME_MIN column, restricted to the kept rows
RECURSIVE filter_by_game_time(_, _, _)
filter_by_game_time(rows, time_filter_name, i) ==
    IF i > Len(rows) THEN <<>>
    ELSE LET gm == parse_hour_minute(rows[i].GAME_TIME)
         IN  IF row_kept(time_filter_name, gm)
             THEN <<[unique_id |-> rows[i].unique_id, GAME_TIME |-> rows[i].GAME_TIME,
                     GAME_MIN |-> gm]>>
                  \o filter_by_game_time(rows, time_filter_name, i + 1)
             ELSE filter_by_game_time(rows, time_filter_name, i + 1)

MaxTimeRows == 2
GameTimeCells ==
    { None,
      Some(<<>>),
      Some(<<"1", ":", "0", "5", "p", "m">>),
      Some(<<"4", ":", "0", "0", "p", "m">>),
      Some(<<"1", "1", ":", "5", "9", "a", "m">>),
      Some(<<"1", "2", ":", "2", "9", "p", "m">>),
      Some(<<"1", "2", ":", "3", "0", "P", "M">>),
      Some(<<"1", ":", "3", "0", "p", "m">>),
      Some(<<"1", ":", "3", "1", "p", "m">>),
      Some(<<"3", ":", "5", "9", "p", "m">>),
      Some(<<"1", "2", ":", "0", "5", "a", "m">>),
      Some(<<" ", "8", ":", "2", "0", " ", "P", "m", " ">>),
      Some(<<"1", "3", ":", "0", "5">>),
      Some(<<"1", "p", "m">>),
      Some(<<"x", ":", "0", "0", "p", "m">>),
      Some(<<"1", ":", "5", "p", "m">>),
      Some(<<"4", ":", "0", "0", ":", "0", "0", "p", "m">>) }
TimeFilters == {"all", "1pm", "late", "early"}
TimeTables ==
    UNION { { [i \in 1..n |-> [unique_id |-> i - 1, GAME_TIME |-> cells[i]]] :
              cells \in [1..n -> GameTimeCells] } : n \in 0..MaxTimeRows }

InitTime ==
    /\ df \in {Some(t) : t \in TimeTables}
    /\ time_filter \in {Some(f) : f \in TimeFilters}
    /\ filtered = None
    /\ IdleSalary /\ IdleLoad /\ IdleBuild /\ IdleWeb

FilterByGameTime ==
    /\ df # None /\ filtered = None
    /\ filtered' = Some(filter_by_game_time(Val(df), Val(time_filter), 1))
    /\ UNCHANGED <<df, time_filter, salaryVars, loadVars, buildVars, webVars>>

NextTime == FilterByGameTime

SpecTime == InitTime /\ [][NextTime]_vars

(***************************************************************************)
(* Claim C7: filter_by_game_time keeps exactly these rows, by the minutes  *)
(* since midnight a game time parses to: under "1pm" the rows with         *)
(* 750 <= minutes <= 810; under "late" the rows with minutes >= 960; under *)
(* "all" or an unrecognized name the rows whose time is parseable; a row   *)
(* with an unparseable time under no filter. "1:05pm" parses to 785,       *)
(* "4:00pm" to 960 and "11:59am" to 719.                                   *)
(***************************************************************************)
C7_Wanted(f, minutes) ==
    /\ minutes # None
    /\ f = "1pm" => 750 <= Val(minutes) /\ Val(minutes) <= 810
    /\ f = "late" => Val(minutes) >= 960

C7_Minutes(cell) ==
    IF cell = Some(<<"1", ":", "0", "5", "p", "m">>) THEN Some(785)
    ELSE IF cell = Some(<<"4", ":", "0", "0", "p", "m">>) THEN Some(960)
    ELSE IF cell = Some(<<"1", "1", ":", "5", "9", "a", "m">>) THEN Some(719)
    ELSE IF cell = Some(<<"1", "2", ":", "2", "9", "p", "m">>) THEN Some(749)
    ELSE IF cell = Some(<<"1", "2", ":", "3", "0", "P", "M">>) THEN Some(750)
    ELSE IF cell = Some(<<"1", ":", "3", "0", "p", "m">>) THEN Some(810)
    ELSE IF cell = Some(<<"1", ":", "3", "1", "p", "m">>) THEN Some(811)
    ELSE IF cell = Some(<<"3", ":", "5", "9", "p", "m">>) THEN Some(959)
    ELSE IF cell = Some(<<"1", "2", ":", "0", "5", "a", "m">>) THEN Some(5)
    ELSE parse_hour_minute(cell)

C7_FilterByGameTime ==
    filtered # None =>
        LET in  == Val(df)
            out == Val(filtered)
            f   == Val(time_filter)
            want == {i \in 1..Len(in) : C7_Wanted(f, C7_Minutes(in[i].GAME_TIME))}
        IN  /\ {out[k].unique_id + 1 : k \in 1..Len(out)} = want
            /\ Len(out) = Cardinality(want)
            /\ \A k \in 1..Len(out) :
                  /\ out[k].GAME_TIME = in[out[k].unique_id + 1].GAME_TIME
                  /\ out[k].GAME_MIN = C7_Minutes(out[k].GAME_TIME)
                  /\ k > 1 => out[k - 1].unique_id < out[k].unique_id

\* the "late" filter has kept a 4:00pm row and dropped an 11:59am row
C7_Witness ==
    /\ filtered # None /\ time_filter = Some("late")
    /\ Len(Val(df)) = 2 /\ Len(Val(filtered)) = 1
    /\ Val(df)[1].GAME_TIME = Some(<<"1", "1", ":", "5", "9", "a", "m">>)
    /\ Val(df)[2].GAME_TIME = Some(<<"4", ":", "0", "0", "p", "m">>)
    /\ Val(filtered)[1].GAME_MIN = Some(960)

(***************************************************************************)
(* build_lineups                                                           *)
(*                                                                         *)
(* The optimizer (pydfs_lineup_optimizer) is the environment: asked for n  *)
(* lineups it produces at most n, one at a time, each of LineupSize        *)
(* distinct loaded players holding every locked player, in any slot        *)
(* order; it may stop early and it may raise at any point.                 *)
(*                                                                         *)
(* A unique_id is the pair <<NAME, index>> for the text "NAME_index". The  *)
(* ids of the model carry names in the order of their indices, so that the *)
(* order of the texts is the order of the indices.                         *)
(***************************************************************************)
DK_NFL_SLOTS == <<"QB", "RB", "RB", "WR", "WR", "WR", "TE", "FLEX", "DST">>

CandidateFactor == 3       \* optimizer.optimize(n=num_lineups * 3)

IdLess(a, b) == a[2] < b[2]

\* sorted(ids)
RECURSIVE SortIds(_)
SortIds(ids) ==
    IF ids = <<>> THEN <<>>
    ELSE LET k == CHOOSE i \in 1..Len(ids) :
                      \A j \in 1..Len(ids) : ~IdLess(ids[j], ids[i])
         IN  <<ids[k]>> \o SortIds(SubSeq(ids, 1, k - 1) \o SubSeq(ids, k + 1, Len(ids)))

InList(x, list) == \E i \in 1..Len(list) : list[i] = x

\* s.split(c)
RECURSIVE SplitOn(_, _)
SplitOn(s, c) ==
    LET at == {i \in 1..Len(s) : s[i] = c}
    IN  IF at = {} THEN <<s>>
        ELSE <<SubSeq(s, 1, Min(at) - 1)>> \o SplitOn(SubSeq(s, Min(at) + 1, Len(s)), c)

\* [p.strip().upper() for p in str(POS).split("/")]
Positions(pos) ==
    LET parts == SplitOn(pos, "/")
    IN  [k \in 1..Len(parts) |-> Upper(Strip(parts[k]))]

\* "if excluded_ids: df = df[~df["unique_id"].isin(excluded_ids)]"
not_excluded_any(row, excluded) == TRUE
not_excluded(row, excluded) == ~InList(row.unique_id, excluded)

\* "if salary <= 0 or fppg <= 0 or not positions or positions == [""]: continue"
Skipped(row) ==
    \/ row.SALARY <= 0
    \/ row.ADJ_PROJECTION <= 0
    \/ Positions(row.POS) = <<>>
    \/ Positions(row.POS) = << <<>> >>

\* the Player records handed to optimizer.load_players, from row i on
RECURSIVE BuildPlayers(_, _, _)
BuildPlayers(rows, excluded, i) ==
    IF i > Len(rows) THEN <<>>
    ELSE IF not_excluded(rows[i], excluded) /\ ~Skipped(rows[i])
         THEN <<[id |-> rows[i].unique_id, first_name |-> rows[i].NAME,
                 positions |-> Positions(rows[i].POS), team |-> rows[i].TEAM,
                 salary |-> rows[i].SALARY, fppg |-> rows[i].ADJ_PROJECTION]>>
              \o BuildPlayers(rows, excluded, i + 1)
         ELSE BuildPlayers(rows, excluded, i + 1)

PlayerIds(ps) == {ps[i].id : i \in 1..Len(ps)}

\* "p = next((pl for pl in players if pl.id == pid), None); if p: ..."
lock_wanted_always(ps, pid) == TRUE
lock_wanted(ps, pid) == pid \in PlayerIds(ps)

\* the ids passed to optimizer.add_player_to_lineup, in the order of locked_ids
LockCalls(ps, locked) == SelectSeq(locked, LAMBDA pid : lock_wanted(ps, pid))

\* "ids = tuple(sorted([p.id for p in lineup.players]))"
lineup_key_unsorted(lineup) == lineup
lineup_key(lineup) == SortIds(lineup)

\* "if len(unique_lineups) >= num_lineups: break"
enough_lineups_strict(n_unique, count) == n_unique > count
enough_lineups(n_unique, count) == n_unique >= count

\* "[(slot, p) for slot, p in zip(DK_NFL_SLOTS, lineup.players)]"
SlotPlayers(lineup) ==
    [k \in 1..(IF Len(lineup) < Len(DK_NFL_SLOTS) THEN Len(lineup) ELSE Len(DK_NFL_SLOTS))
       |-> <<DK_NFL_SLOTS[k], lineup[k]>>]

\* what build_lineups returns once "except Exception" has caught the error
returned_after_error_empty(unique) == <<>>
returned_after_error(unique) == unique

LineupSize  == 2   \* players in a lineup of the optimizer
MaxCount    == 2   \* largest num_lineups
MaxYield    == 4   \* most candidates the optimizer produces in one call
MaxLocked   == 2   \* most entries of locked_ids
MaxExcluded == 1   \* most entries of excluded_ids

PoolNames == <<"a", "b", "c", "d", "e", "f", "g">>
PoolIds   == {<<PoolNames[i], i - 1>> : i \in 1..(LineupSize + 1)}
StaleId   == <<"z", 9>>

RECURSIVE SetToAsc(_)
SetToAsc(S) ==
    IF S = {} THEN <<>>
    ELSE LET m == CHOOSE x \in S : \A y \in S : ~IdLess(y, x)
         IN  <<m>> \o SetToAsc(S \ {m})
Reverse(q) == [k \in 1..Len(q) |-> q[Len(q) + 1 - k]]

\* the lineups the optimizer can produce: LineupSize loaded players holding
\* the locked ones, in ascending or descending slot order
Lineups(ps, locks) ==
    UNION { {SetToAsc(S), Reverse(SetToAsc(S))} :
            S \in {T \in SUBSET PlayerIds(ps) :
                     /\ Cardinality(T) = LineupSize
                     /\ \A k \in 1..Len(locks) : locks[k] \in T} }

YieldLimit(count) ==
    IF count * CandidateFactor < MaxYield THEN count * CandidateFactor ELSE MaxYield

GoodRow(id) ==
    [unique_id |-> id, NAME |-> id[1], TEAM |-> "NE", SALARY |-> 5000,
     ADJ_PROJECTION |-> 1200, POS |-> <<"r", "b", "/", "w", "r">>]
BadRows(id) ==
    { [GoodRow(id) EXCEPT !.SALARY = 0],
      [GoodRow(id) EXCEPT !.ADJ_PROJECTION = -112],
      [GoodRow(id) EXCEPT !.POS = <<" ">>] }
GoodTable == [i \in 1..(LineupSize + 1) |-> GoodRow(<<PoolNames[i], i - 1>>)]
\* the tables of valid rows with at most one row that cannot be rostered
Tables ==
    {GoodTable} \cup
    UNION { {[GoodTable EXCEPT ![i] = r] : r \in BadRows(GoodTable[i].unique_id)} :
            i \in 1..Len(GoodTable) }
\* lists of at most n distinct ids, in ascending order
IdLists(ids, n) == {SetToAsc(S) : S \in {T \in SUBSET ids : Cardinality(T) <= n}}

BuildStart ==
    /\ players = <<>> /\ stackApplied = FALSE /\ lockRequests = <<>>
    /\ yielded = <<>> /\ unique_lineups = <<>> /\ seen_lineups = {}
    /\ pc = "players" /\ result = None /\ log = <<>>
    /\ IdleSalary /\ IdleLoad /\ IdleTime /\ IdleWeb

\* any table, locks, exclusions and stack; one lineup asked for
InitBuildPool ==
    /\ b_df \in Tables
    /\ num_lineups = 1
    /\ locked_ids \in IdLists(PoolIds \cup {StaleId}, MaxLocked)
    /\ excluded_ids \in IdLists(PoolIds \cup {StaleId}, MaxExcluded)
    /\ stack_team \in {"", "NE"}
    /\ BuildStart

\* any count, on the table of valid rows
InitBuildCount ==
    /\ b_df = GoodTable
    /\ num_lineups \in -1..MaxCount
    /\ locked_ids = <<>>
    /\ excluded_ids = <<>>
    /\ stack_team = ""
    /\ BuildStart

InitBuild == InitBuildPool \/ InitBuildCount

buildArgs == <<b_df, num_lineups, locked_ids, excluded_ids, stack_team>>
otherVars == <<salaryVars, loadVars, timeVars, webVars>>

\* lines 139-164: the exclusion, the loop over the rows, optimizer.load_players
LoadPool ==
    /\ pc = "players"
    /\ players' = BuildPlayers(b_df, excluded_ids, 1)
    /\ pc' = "stack"
    /\ UNCHANGED <<buildArgs, stackApplied, lockRequests, yielded, unique_lineups,
                   seen_lineups, result, log, otherVars>>

\* lines 167-179: no stack_team, or optimizer.add_stack succeeds
AddStack ==
    /\ pc = "stack"
    /\ stackApplied' = (stack_team # "")
    /\ pc' = "lock"
    /\ UNCHANGED <<buildArgs, players, lockRequests, yielded, unique_lineups,
                   seen_lineups, result, log, otherVars>>

\* lines 168-177: optimizer.add_stack raises; the error is printed
AddStackFails ==
    /\ pc = "stack"
    /\ stack_team # ""
    /\ log' = Append(log, "Stacking error")
    /\ pc' = "lock"
    /\ UNCHANGED <<buildArgs, players, stackApplied, lockRequests, yielded,
                   unique_lineups, seen_lineups, result, otherVars>>

\* lines 181-185: every matching id is passed to add_player_to_lineup
LockPlayers ==
    /\ pc = "lock"
    /\ lockRequests' = LockCalls(players, locked_ids)
    /\ pc' = "optimize"
    /\ UNCHANGED <<buildArgs, players, stackApplied, yielded, unique_lineups,
                   seen_lineups, result, log, otherVars>>

\* lines 181-185: the k-th call of add_player_to_lineup raises (the player
\* cannot be placed); nothing catches it
LockPlayersRaises ==
    /\ pc = "lock"
    /\ \E k \in 1..Len(LockCalls(players, locked_ids)) :
           lockRequests' = SubSeq(LockCalls(players, locked_ids), 1, k)
    /\ pc' = "raised"
    /\ UNCHANGED <<buildArgs, players, stackApplied, yielded, unique_lineups,
                   seen_lineups, result, log, otherVars>>

\* lines 190-198: the optimizer produces a lineup; one pass of the loop body
OptimizerYields ==
    /\ pc = "optimize"
    /\ Len(yielded) < YieldLimit(num_lineups)
    /\ \E lineup \in Lineups(players, lockRequests) :
         LET ids == lineup_key(lineup)
             uniq == Append(unique_lineups, SlotPlayers(lineup))
         IN  /\ yielded' = Append(yielded, lineup)
             /\ IF ids \in seen_lineups
                THEN UNCHANGED <<seen_lineups, unique_lineups, pc, result>>
                ELSE /\ seen_lineups' = seen_lineups \cup {ids}
                     /\ unique_lineups' = uniq
                     /\ IF enough_lineups(Len(uniq), num_lineups)
                        THEN pc' = "done" /\ result' = Some(uniq)
                        ELSE UNCHANGED <<pc, result>>
    /\ UNCHANGED <<buildArgs, players, stackApplied, lockRequests, log, otherVars>>

\* lines 190, 202: the generator is exhausted
OptimizerStops ==
    /\ pc = "optimize"
    /\ pc' = "done"
    /\ result' = Some(unique_lineups)
    /\ UNCHANGED <<buildArgs, players, stackApplied, lockRequests, yielded,
                   unique_lineups, seen_lineups, log, otherVars>>

\* lines 199-202: the optimizer raises; the error is printed
OptimizerRaises ==
    /\ pc = "optimize"
    /\ log' = Append(log, "Optimizer error")
    /\ pc' = "done"
    /\ result' = Some(returned_after_error(unique_lineups))
    /\ UNCHANGED <<buildArgs, players, stackApplied, lockRequests, yielded,
                   unique_lineups, seen_lineups, otherVars>>

NextBuild ==
    \/ LoadPool \/ AddStack \/ AddStackFails \/ LockPlayers \/ LockPlayersRaises
    \/ OptimizerYields \/ OptimizerStops \/ OptimizerRaises

SpecBuild == InitBuild /\ [][NextBuild]_vars

\* the player ids of a returned lineup and of a candidate
LineupIdSet(slot_players) == {slot_players[k][2] : k \in 1..Len(slot_players)}
CandidateIdSet(lineup) == {lineup[k] : k \in 1..Len(lineup)}

\* the places of the candidate sequence that hold a player-id set not seen at
\* an earlier place, and the first k of them
FirstOccurrences(cands) ==
    {i \in 1..Len(cands) :
        \A j \in 1..(i - 1) : CandidateIdSet(cands[j]) # CandidateIdSet(cands[i])}
FirstDistinct(cands, k) ==
    {i \in FirstOccurrences(cands) :
        Cardinality({j \in FirstOccurrences(cands) : j <= i}) <= k}

\* lineups is, in order, the candidates at the places of P
IsSelection(lineups, cands, P) ==
    /\ Len(lineups) = Cardinality(P)
    /\ \A i \in P :
          lineups[Cardinality({j \in P : j <= i})] = SlotPlayers(cands[i])

(***************************************************************************)
(* Claim C1: no two lineups in the list build_lineups returns (or has      *)
(* collected so far) have the same set of player ids, whatever candidates  *)
(* the optimizer produces, the same players in another slot order          *)
(* included.                                                               *)
(***************************************************************************)
C1_NoDuplicateLineups ==
    /\ \A i, j \in 1..Len(unique_lineups) :
          i # j => LineupIdSet(unique_lineups[i]) # LineupIdSet(unique_lineups[j])
    /\ result # None =>
          \A i, j \in 1..Len(Val(result)) :
              i # j => LineupIdSet(Val(result)[i]) # LineupIdSet(Val(result)[j])

\* two lineups were returned although the second candidate held the players
\* of the first in another slot order
C1_Witness ==
    /\ result # None /\ Len(Val(result)) = 2
    /\ Len(yielded) = 3
    /\ yielded[1] # yielded[2]
    /\ CandidateIdSet(yielded[1]) = CandidateIdSet(yielded[2])

OptimizerErrorCaught == InList("Optimizer error", log)

C3_AsStated ==
    OptimizerErrorCaught => pc = "done" /\ result = Some(<<>>)

(***************************************************************************)
(* Claim C3 (amended): if the optimizer raises while the lineups are       *)
(* generated, the error is not propagated and build_lineups returns the    *)
(* distinct lineups collected before the error: one for each player-id set *)
(* among the candidates produced so far, so the empty list exactly when    *)
(* the error came before the first candidate.                              *)
(***************************************************************************)
C3_ErrorReturnsCollected ==
    OptimizerErrorCaught =>
        /\ pc = "done"
        /\ result # None
        /\ Len(Val(result)) = Cardinality({CandidateIdSet(yielded[i]) : i \in 1..Len(yielded)})
        /\ \A m \in 1..Len(Val(result)) :
              \E i \in 1..Len(yielded) : Val(result)[m] = SlotPlayers(yielded[i])
        /\ (Val(result) = <<>>) <=> (yielded = <<>>)

\* the optimizer raised after its first candidate, which is returned
C3_Witness ==
    /\ OptimizerErrorCaught /\ Len(yielded) = 1
    /\ result # None /\ Len(Val(result)) = 1

(***************************************************************************)
(* Claim C5: no player record handed to the optimizer has an id in         *)
(* excluded_ids, so no candidate and no returned lineup holds an excluded  *)
(* player; an id both locked and excluded is not locked.                   *)
(***************************************************************************)
C5_ExcludedNeverRostered ==
    /\ \A i \in 1..Len(players) : ~InList(players[i].id, excluded_ids)
    /\ \A i \in 1..Len(lockRequests) : ~InList(lockRequests[i], excluded_ids)
    /\ \A i \in 1..Len(yielded) :
          \A id \in CandidateIdSet(yielded[i]) : ~InList(id, excluded_ids)
    /\ result # None =>
          \A i \in 1..Len(Val(result)) :
              \A id \in LineupIdSet(Val(result)[i]) : ~InList(id, excluded_ids)

\* a lineup was returned for a table whose first row is valid, excluded and
\* locked at once
C5_Witness ==
    /\ result # None /\ Len(Val(result)) = 1
    /\ b_df = GoodTable
    /\ excluded_ids = <<GoodTable[1].unique_id>>
    /\ InList(GoodTable[1].unique_id, locked_ids)

(***************************************************************************)
(* Claim C6: for each id in locked_ids the optimizer is asked to force a   *)
(* player into the lineup if and only if a player record with that id was  *)
(* built from the table (the row is not excluded and has a positive        *)
(* salary, a positive projection and a position); an id without a record   *)
(* causes no lock request and no error.                                    *)
(***************************************************************************)
C6_HasRecord(id) ==
    \E i \in 1..Len(b_df) :
        /\ b_df[i].unique_id = id
        /\ ~InList(id, excluded_ids)
        /\ b_df[i].SALARY > 0
        /\ b_df[i].ADJ_PROJECTION > 0
        /\ Strip(b_df[i].POS) # <<>>

C6_LockOnlyMatching ==
    /\ \A k \in 1..Len(lockRequests) :
          InList(lockRequests[k], locked_ids) /\ C6_HasRecord(lockRequests[k])
    /\ pc \in {"optimize", "done"} =>
          \A k \in 1..Len(locked_ids) :
              C6_HasRecord(locked_ids[k]) => InList(locked_ids[k], lockRequests)
    /\ pc = "raised" => lockRequests # <<>>

\* a stale id and the id of a valid row were locked: one request was made
C6_Witness ==
    /\ pc = "optimize"
    /\ InList(StaleId, locked_ids)
    /\ Len(locked_ids) = 2
    /\ Len(lockRequests) = 1

(***************************************************************************)
(* The Flask handlers player_pool ("/") and lineups_page ("/lineups") over *)
(* one session. A session key is None until it is set. A form holds the    *)
(* two multi-valued fields as lists (empty when the field is absent) and   *)
(* the three single fields as None when absent.                            *)
(***************************************************************************)
EmptySession ==
    [locked_players |-> None, excluded_players |-> None, num_lineups |-> None,
     time_filter |-> None, stack_team |-> None]

\* session.get(key, default)
Get(stored, default) == IF stored = None THEN default ELSE Val(stored)

\* the locals both handlers read from the session (lines 209-213, 253-257)
SessionView(sess) ==
    [locked_players   |-> Get(sess.locked_players, <<>>),
     excluded_players |-> Get(sess.excluded_players, <<>>),
     num_lineups      |-> Get(sess.num_lineups, 1),
     time_filter      |-> Get(sess.time_filter, "all"),
     stack_team       |-> Get(sess.stack_team, "")]

\* int(request.form.get("num_lineups", 1))
FormCount(form) ==
    IF form.num_lineups = None THEN [ok |-> TRUE, val |-> 1]
    ELSE PyInt(Val(form.num_lineups))

\* lines 216-226 with a field kept from the session when the form lacks it
StoredSessionKeepingAbsent(form, sess) ==
    [locked_players   |-> Some(form.lock_player),
     excluded_players |-> Some(form.exclude_player),
     num_lineups      |-> IF form.num_lineups = None /\ sess.num_lineups # None
                          THEN sess.num_lineups ELSE Some(FormCount(form).val),
     time_filter      |-> IF form.time_filter = None /\ sess.time_filter # None
                          THEN sess.time_filter ELSE Some(Get(form.time_filter, "all")),
     stack_team       |-> IF form.stack_team = None /\ sess.stack_team # None
                          THEN sess.stack_team ELSE Some(Get(form.stack_team, ""))]

\* lines 216-226: the session after a POST whose num_lineups is an integer
StoredSession(form, sess) ==
    [locked_players   |-> Some(form.lock_player),
     excluded_players |-> Some(form.exclude_player),
     num_lineups      |-> Some(FormCount(form).val),
     time_filter      |-> Some(Get(form.time_filter, "all")),
     stack_team       |-> Some(Get(form.stack_team, ""))]

FormIds == {<<"a", 0>>, <<"b", 1>>}
Forms ==
    [lock_player    : {<<>>} \cup {<<id>> : id \in FormIds},
     exclude_player : {<<>>} \cup {<<id>> : id \in FormIds},
     num_lineups    : {None, Some(<<"2">>), Some(<<" ", "3">>), Some(<<"0">>),
                       Some(<<"-", "1">>), Some(<<"x">>), Some(<<>>)},
     time_filter    : {None, Some("late")},
     stack_team     : {None, Some("NE")}]

InitWeb ==
    /\ session = EmptySession
    /\ lastPost = None
    /\ request = "none"
    /\ response = "none"
    /\ rendered = None
    /\ IdleSalary /\ IdleLoad /\ IdleTime /\ IdleBuild

notWeb == <<salaryVars, loadVars, timeVars, buildVars>>

\* GET /, POST / or GET /lineups: load_players raises (line 208, 252)
RequestFails ==
    /\ request' \in {"GET /", "POST /", "GET /lineups"}
    /\ response' = "500"
    /\ rendered' = None
    /\ UNCHANGED <<session, lastPost, notWeb>>

\* GET /: the pool is rendered with the selections of the session
GetPlayerPool ==
    /\ request' = "GET /"
    /\ response' = "200"
    /\ rendered' = Some([template |-> "player_pool.html", args |-> SessionView(session)])
    /\ UNCHANGED <<session, lastPost, notWeb>>

\* POST / whose num_lineups field is no integer: int() raises ValueError
\* before the session is written
PostPlayerPoolBadCount ==
    \E form \in Forms :
        /\ ~FormCount(form).ok
        /\ request' = "POST /"
        /\ response' = "500"
        /\ rendered' = None
        /\ UNCHANGED <<session, lastPost, notWeb>>

\* POST /: the session is overwritten and the answer is the redirect
PostPlayerPool ==
    \E form \in Forms :
        /\ FormCount(form).ok
        /\ session' = StoredSession(form, session)
        /\ lastPost' = Some(form)
        /\ request' = "POST /"
        /\ response' = "302 /lineups"
        /\ rendered' = None
        /\ UNCHANGED notWeb

\* GET /lineups: the filter state is read back and handed to
\* filter_by_game_time and build_lineups
LineupsPage ==
    /\ request' = "GET /lineups"
    /\ response' = "200"
    /\ rendered' = Some([template |-> "lineups.html", args |-> SessionView(session)])
    /\ UNCHANGED <<session, lastPost, notWeb>>

NextWeb ==
    \/ RequestFails \/ GetPlayerPool \/ PostPlayerPoolBadCount \/ PostPlayerPool
    \/ LineupsPage

SpecWeb == InitWeb /\ [][NextWeb]_vars

(***************************************************************************)
(* Claim C4: after any sequence of requests on one session, the filter     *)
(* state the lineups view reads equals the five form fields of the most    *)
(* recent completed POST / (an absent field taking its default, never an   *)
(* earlier value), or the defaults ([], [], 1, "all", "") if no POST has   *)
(* completed; and every completed POST / answers with the redirect to the  *)
(* lineups view.                                                           *)
(***************************************************************************)
C4_Expected ==
    IF lastPost = None
    THEN [locked_players |-> <<>>, excluded_players |-> <<>>, num_lineups |-> 1,
          time_filter |-> "all", stack_team |-> ""]
    ELSE LET form == Val(lastPost)
         IN  [locked_players   |-> form.lock_player,
              excluded_players |-> form.exclude_player,
              num_lineups      |-> IF form.num_lineups = None THEN 1
                                   ELSE PyInt(Val(form.num_lineups)).val,
              time_filter      |-> IF form.time_filter = None THEN "all"
                                   ELSE Val(form.time_filter),
              stack_team       |-> IF form.stack_team = None THEN ""
                                   ELSE Val(form.stack_team)]

C4_LineupsViewReadsLastPost ==
    /\ (request = "GET /lineups" /\ response = "200") =>
           /\ rendered # None
           /\ Val(rendered).template = "lineups.html"
           /\ Val(rendered).args = C4_Expected
    /\ (request = "POST /" /\ response # "500") => response = "302 /lineups"
    /\ SessionView(session) = C4_Expected

\* the lineups view was rendered after a POST that carried a count of 2 and
\* a lock but no time_filter and no stack_team
C4_Witness ==
    /\ request = "GET /lineups" /\ response = "200"
    /\ lastPost # None
    /\ Val(lastPost).time_filter = None /\ Val(lastPost).stack_team = None
    /\ Val(lastPost).num_lineups = Some(<<"2">>)
    /\ Val(rendered).args.num_lineups = 2
    /\ Val(rendered).args.time_filter = "all"
    /\ Val(rendered).args.locked_players # <<>>

(***************************************************************************)
(* Claim C10 (as stated): in every session state reachable by POST /       *)
(* submissions the stored num_lineups is an integer >= 1, so the lineups   *)
(* view never invokes build_lineups with a count below 1.                  *)
(***************************************************************************)
C10_AsStated ==
    /\ session.num_lineups # None => Val(session.num_lineups) >= 1
    /\ (rendered # None /\ Val(rendered).template = "lineups.html") =>
           Val(rendered).args.num_lineups >= 1

=============================================================================
